---------------------------- MODULE Spec2Model ----------------------------
(***************************************************************************)
(* A model of the schema engine of esmj-schema (src/src/index.ts, lines    *)
(* 1-1000): schema nodes whose _parse method is a stack of hooks installed *)
(* by hookOriginal, the object / array / union composites, the two         *)
(* error-collection policies, and the parse / safeParse entry points.      *)
(*                                                                         *)
(* A schema node lives in a heap (the sequence nodes); a node's identity   *)
(* is its index.  Modifiers mutate the node in place by pushing one hook,  *)
(* exactly as hookOriginal replaces object._parse by a closure over the    *)
(* previous one.  Composite nodes hold the identities of their children    *)
(* and look the child's current _parse up at call time.                    *)
(***************************************************************************)
EXTENDS Integers, Sequences, FiniteSets, TLC

VARIABLES nodes, last, extenders

vars == <<nodes, last, extenders>>

(***************************************************************************)
(* JavaScript values.  Every value is a record of the same shape so that   *)
(* any two values can be compared: t is the tag, n the number (or 0/1 for  *)
(* a boolean), s the string, c the children (array elements, or the        *)
(* [k, v] entries of a plain object in property order).                    *)
(***************************************************************************)
Undef == [t |-> "undefined", n |-> 0, s |-> "", c |-> <<>>]
Null == [t |-> "null", n |-> 0, s |-> "", c |-> <<>>]
Num(i) == [t |-> "number", n |-> i, s |-> "", c |-> <<>>]
Str(x) == [t |-> "string", n |-> 0, s |-> x, c |-> <<>>]
Bool(b) == [t |-> "boolean", n |-> IF b THEN 1 ELSE 0, s |-> "", c |-> <<>>]
Arr(items) == [t |-> "array", n |-> 0, s |-> "", c |-> items]
Obj(entries) == [t |-> "object", n |-> 0, s |-> "", c |-> entries]

\* typeof value
TypeOf(v) ==
  CASE v.t = "undefined" -> "undefined"
    [] v.t = "number" -> "number"
    [] v.t = "string" -> "string"
    [] v.t = "boolean" -> "boolean"
    [] OTHER -> "object"

\* !value
Falsy(v) ==
  \/ v.t \in {"undefined", "null"}
  \/ v.t = "number" /\ v.n = 0
  \/ v.t = "string" /\ v.s = ""
  \/ v.t = "boolean" /\ v.n = 0

\* value.data[key] on a plain object: the entry's value, undefined when absent
HasKey(o, k) == \E i \in 1..Len(o.c) : o.c[i].k = k
GetKey(o, k) ==
  IF HasKey(o, k)
  THEN o.c[CHOOSE i \in 1..Len(o.c) : o.c[i].k = k].v
  ELSE Undef

RECURSIVE JoinStr(_, _)
JoinStr(parts, sep) ==
  IF Len(parts) = 0 THEN ""
  ELSE IF Len(parts) = 1 THEN parts[1]
  ELSE parts[1] \o sep \o JoinStr(Tail(parts), sep)

\* `${value}`: the string a template literal makes of a value
RECURSIVE TemplateString(_)
TemplateString(v) ==
  CASE v.t = "undefined" -> "undefined"
    [] v.t = "null" -> "null"
    [] v.t = "number" -> ToString(v.n)
    [] v.t = "string" -> v.s
    [] v.t = "boolean" -> IF v.n = 1 THEN "true" ELSE "false"
    [] v.t = "array" ->
         JoinStr([i \in 1..Len(v.c) |->
                    IF v.c[i].t \in {"undefined", "null"} THEN ""
                    ELSE TemplateString(v.c[i])], ",")
    [] OTHER -> "[object Object]"

\* JSON.stringify(value) for a value that is not undefined
RECURSIVE JSONStringify(_)
JSONStringify(v) ==
  CASE v.t \in {"undefined", "null"} -> "null"
    [] v.t = "number" -> ToString(v.n)
    [] v.t = "string" -> "\"" \o v.s \o "\""
    [] v.t = "boolean" -> IF v.n = 1 THEN "true" ELSE "false"
    [] v.t = "array" ->
         "[" \o JoinStr([i \in 1..Len(v.c) |-> JSONStringify(v.c[i])], ",") \o "]"
    [] OTHER ->
         LET kept == SelectSeq(v.c, LAMBDA e : e.v.t # "undefined")
         IN "{" \o JoinStr([i \in 1..Len(kept) |->
                     "\"" \o kept[i].k \o "\":" \o JSONStringify(kept[i].v)], ",") \o "}"


(***************************************************************************)
(* Errors and parse results.                                               *)
(*   ErrorStructure = { message, cause?: { key? } }: message is a value    *)
(*   (a string, or undefined when no message was supplied), hasCause says  *)
(*   whether the cause property is present, key is cause.key.              *)
(*   A result carries thrown (an exception left the call instead of a      *)
(*   result), success, and the presence of its data / error / errors       *)
(*   fields; log lists the nested _parse calls the call made, in order.    *)
(***************************************************************************)
NoErr == [message |-> Undef, hasCause |-> FALSE, key |-> ""]

Valid(data, log) ==
  [thrown |-> FALSE, exn |-> "", success |-> TRUE, hasData |-> TRUE, data |-> data,
   hasError |-> FALSE, error |-> NoErr, errors |-> <<>>, log |-> log]

Invalid(error, errors, log) ==
  [thrown |-> FALSE, exn |-> "", success |-> FALSE, hasData |-> FALSE, data |-> Undef,
   hasError |-> TRUE, error |-> error, errors |-> errors, log |-> log]

Thrown(exn, log) ==
  [thrown |-> TRUE, exn |-> exn, success |-> FALSE, hasData |-> FALSE, data |-> Undef,
   hasError |-> FALSE, error |-> NoErr, errors |-> <<>>, log |-> log]

WithLog(r, log) == [r EXCEPT !.log = log]

\* ParseOptions values a caller can pass
PoUndefined == "undefined"
PoEmpty == "{}"
PoAbortEarly == "{abortEarly:true}"
PoCollectAll == "{abortEarly:false}"

\* const defaultParseOptions = { abortEarly: true }
defaultParseOptions == TRUE

\* a resolveParseOptions that drops the caller's options
resolveParseOptionsDefaultsOnly(parseOptions) == defaultParseOptions

\* resolveParseOptions(parseOptions).abortEarly !== false
resolveParseOptions(parseOptions) ==
  IF parseOptions = PoCollectAll THEN FALSE
  ELSE IF parseOptions = PoAbortEarly THEN TRUE
  ELSE defaultParseOptions

\* a formatError that puts the nested key before the parent's
formatErrorInnerFirst(error, parentKey) ==
  IF Falsy(parentKey) THEN error
  ELSE LET errorKey ==
             IF error.hasCause /\ error.key # ""
             THEN error.key \o "." \o TemplateString(parentKey)
             ELSE TemplateString(parentKey)
       IN [message |-> Str("Error parsing key \"" \o errorKey \o "\": "
                           \o TemplateString(error.message)),
           hasCause |-> TRUE,
           key |-> errorKey]

\* formatError(error, parentKey); parentKey is a field name or an array index
formatError(error, parentKey) ==
  IF Falsy(parentKey) THEN error
  ELSE LET errorKey ==
             IF error.hasCause /\ error.key # ""
             THEN TemplateString(parentKey) \o "." \o error.key
             ELSE TemplateString(parentKey)
       IN [message |-> Str("Error parsing key \"" \o errorKey \o "\": "
                           \o TemplateString(error.message)),
           hasCause |-> TRUE,
           key |-> errorKey]

\* a propagateNestedErrors that assigns the errors instead of pushing them
propagateNestedErrorsAssign(item, errors, key) ==
  IF ~item.hasError \/ Len(item.errors) = 0 THEN errors
  ELSE [i \in 1..Len(item.errors) |-> formatError(item.errors[i], key)]

\* propagateNestedErrors(item, errors, key): errors after the pushes
propagateNestedErrors(item, errors, key) ==
  IF ~item.hasError \/ Len(item.errors) = 0 THEN errors
  ELSE errors \o [i \in 1..Len(item.errors) |-> formatError(item.errors[i], key)]

\* the validation primitives
stringValidation(value) == value.t = "string"
numberValidation(value) == value.t = "number"
booleanValidation(value) == value.t = "boolean"
arrayValidation(value) == value.t = "array"
objectValidation(value) == value.t = "object"

(***************************************************************************)
(* Error messages.  A message is a constant string, a function of the      *)
(* rejected value, or missing.                                             *)
(***************************************************************************)
MsgUndefined == [kind |-> "undefined", arg |-> ""]
MsgConst(text) == [kind |-> "const", arg |-> text]
MsgFactory(type) == [kind |-> "factory", arg |-> type]
MsgUnion == [kind |-> "union", arg |-> ""]

\* errorMessageFactory(type)(value)
errorMessageFactory(type, value) ==
  "The value \"" \o TemplateString(value) \o "\" must be type of " \o type
    \o " but is type of \"" \o TypeOf(value) \o "\"."

\* schema._getDescription(): a child is constructed before its parent, so
\* the recursion over definitions ends
RECURSIVE getDescription(_, _)
getDescription(h, id) ==
  CASE h[id].validation = "object" ->
         "object({ " \o JoinStr([i \in 1..Len(h[id].definition) |->
             h[id].definition[i].k \o ": "
               \o getDescription(h, h[id].definition[i].id)], ", ")
           \o " })"
    [] h[id].validation = "array" ->
         "array(" \o getDescription(h, h[id].definition[1].id) \o ")"
    [] OTHER -> h[id].type

\* the message function s.union builds
unionMessage(h, id, value) ==
  "Invalid union value. Expected the value to match one of the schemas:"
    \o JoinStr([i \in 1..Len(h[id].definition) |->
                  " " \o ToString(i) \o ". "
                    \o getDescription(h, h[id].definition[i].id)], ",")
    \o " but received \"" \o TypeOf(value) \o "\" with value: "
    \o (IF objectValidation(value) THEN JSONStringify(value)
        ELSE "\"" \o TemplateString(value) \o "\"")

\* typeof message === 'function' ? message(value) : message
MessageText(h, id, message, value) ==
  CASE message.kind = "undefined" -> Undef
    [] message.kind = "const" -> Str(message.arg)
    [] message.kind = "factory" -> Str(errorMessageFactory(message.arg, value))
    [] OTHER -> Str(unionMessage(h, id, value))

(***************************************************************************)
(* User callbacks.  A callback is named; each name stands for one          *)
(* JavaScript function.  A callback returns a value or throws.             *)
(***************************************************************************)
Returned(v) == [thrown |-> FALSE, v |-> v]
Threw == [thrown |-> TRUE, v |-> Undef]

\* transform callbacks:  () => 'first',  () => 'second',
\* (v) => { throw new Error(...) }
ApplyTransform(cb, data) ==
  CASE cb = "first" -> Returned(Str("first"))
    [] cb = "second" -> Returned(Str("second"))
    [] OTHER -> Threw

\* the integers multipleOf is given and applied to
MaxAbs == 10
Divisors == (0 - MaxAbs)..MaxAbs

Abs(i) == IF i < 0 THEN 0 - i ELSE i

NaN == [nan |-> TRUE, n |-> 0]
Finite(i) == [nan |-> FALSE, n |-> i]

\* ToNumber of a primitive, as % applies it to its left operand
ToNumber(v) ==
  CASE v.t = "number" -> Finite(v.n)
    [] v.t = "null" -> Finite(0)
    [] v.t = "boolean" -> Finite(v.n)
    [] v.t = "string" /\ v.s = "" -> Finite(0)
    [] OTHER -> NaN

\* a remainder that subtracts the divisor once
JsRemainderOnce(a, b) ==
  IF a.nan \/ b = 0 THEN NaN ELSE Finite(a.n - b)

\* a % b on integers: NaN for b = 0, else the remainder of the truncated
\* division, which has the sign of a (-0 for a negative multiple, and
\* -0 === 0)
JsRemainder(a, b) ==
  IF a.nan \/ b = 0 THEN NaN
  ELSE Finite(IF a.n < 0 THEN 0 - ((0 - a.n) % Abs(b)) ELSE a.n % Abs(b))

\* (num) => num % value === 0
multipleOfPredicate(value, num) ==
  LET r == JsRemainder(ToNumber(num), value) IN ~r.nan /\ r.n = 0

\* the name the predicate of multipleOf(value) goes by in a hook
MultipleOfCallback(value) == "multipleOf " \o ToString(value)
DivisorOf(cb) == CHOOSE value \in Divisors : cb = MultipleOfCallback(value)

\* refine predicates:  () => true,  () => false,  (v) => !!v,
\* (num) => num % value === 0,  (v) => { throw ... }
ApplyPredicate(cb, data) ==
  CASE cb = "always" -> Returned(Bool(TRUE))
    [] cb = "never" -> Returned(Bool(FALSE))
    [] cb = "truthy" -> Returned(Bool(~Falsy(data)))
    [] \E value \in Divisors : cb = MultipleOfCallback(value) ->
         Returned(Bool(multipleOfPredicate(DivisorOf(cb), data)))
    [] OTHER -> Threw

\* preprocess callbacks:  (v) => v,  (v) => String(v),  (v) => { throw ... }
ApplyPreprocess(cb, value) ==
  CASE cb = "id" -> Returned(value)
    [] cb = "String" -> Returned(Str(TemplateString(value)))
    [] OTHER -> Threw

(***************************************************************************)
(* Schema nodes.                                                           *)
(*   type        the closure variable type of createSchemaInterface        *)
(*   validation  which validation function the node was created with       *)
(*   message     createdOptions.message                                    *)
(*   definition  the children: [k, id] per field of an object in the       *)
(*               order for..in enumerates the definition, the element      *)
(*               schema of an array, the candidates of a union             *)
(*   hooks       the closures hookOriginal stacked on _parse, innermost    *)
(*               first; hooks[i] wraps what hooks[1..i-1] built            *)
(***************************************************************************)
Hook(name) ==
  [h |-> name, cb |-> "", dv |-> Undef, isFn |-> FALSE, target |-> 0,
   message |-> MsgUndefined]

\* the nested _parse call number `at` that node `by` makes on node `node`
ParseEvent(by, at, node, value, parseOptions) ==
  [by |-> by, at |-> at, node |-> node, v |-> value, o |-> parseOptions]

\* the depth of nested _parse calls after which the engine's stack is full
StackLimit == 6

RECURSIVE ParseAt(_, _, _, _, _, _)
RECURSIVE unionValidation(_, _, _, _, _, _)
RECURSIVE objectLoop(_, _, _, _, _, _, _, _, _)
RECURSIVE arrayLoop(_, _, _, _, _, _, _, _, _)

\* definition._parse(value, parseOptions): the callee's current _parse,
\* with all the hooks it has at the time of the call
Invoke(h, id, value, parseOptions, fuel, by, at) ==
  LET ev == ParseEvent(by, at, id, value, parseOptions)
  IN IF fuel = 0 THEN Thrown("RangeError", <<ev>>)
     ELSE LET r == ParseAt(h, id, Len(h[id].hooks), value, parseOptions, fuel - 1)
          IN WithLog(r, <<ev>> \o r.log)

\* a union validation that goes on after a success and keeps the last one
RECURSIVE unionValidationLastMatch(_, _, _, _, _, _)
unionValidationLastMatch(h, id, value, index, fuel, log) ==
  IF index > Len(h[id].definition) THEN [ret |-> "false", res |-> Thrown("", log)]
  ELSE LET result == Invoke(h, h[id].definition[index].id, value, PoUndefined,
                            fuel, id, index)
           later == unionValidationLastMatch(h, id, value, index + 1, fuel,
                                             log \o result.log)
       IN IF result.thrown
          THEN [ret |-> "thrown", res |-> WithLog(result, log \o result.log)]
          ELSE IF later.ret # "false" \/ ~result.success THEN later
          ELSE [ret |-> "result", res |-> WithLog(result, later.res.log)]

\* the validation function of s.union: candidates in order, no options
unionValidation(h, id, value, index, fuel, log) ==
  IF index > Len(h[id].definition) THEN [ret |-> "false", res |-> Thrown("", log)]
  ELSE LET result == Invoke(h, h[id].definition[index].id, value, PoUndefined,
                            fuel, id, index)
       IN IF result.thrown
          THEN [ret |-> "thrown", res |-> WithLog(result, log \o result.log)]
          ELSE IF result.success
          THEN [ret |-> "result", res |-> WithLog(result, log \o result.log)]
          ELSE unionValidation(h, id, value, index + 1, fuel, log \o result.log)

\* a validation whose union accepts when it lists no candidate
validationEmptyUnionAccepts(h, id, value, fuel) ==
  LET verdict(b) == [ret |-> IF b THEN "true" ELSE "false", res |-> Thrown("", <<>>)]
  IN CASE h[id].validation = "string" -> verdict(stringValidation(value))
       [] h[id].validation = "number" -> verdict(numberValidation(value))
       [] h[id].validation = "boolean" -> verdict(booleanValidation(value))
       [] h[id].validation = "object" -> verdict(objectValidation(value))
       [] h[id].validation = "array" -> verdict(arrayValidation(value))
       [] h[id].validation = "union" ->
            IF Len(h[id].definition) = 0 THEN verdict(TRUE)
            ELSE unionValidation(h, id, value, 1, fuel, <<>>)
       [] OTHER -> verdict(TRUE)

\* validation(value) of a node
validation(h, id, value, fuel) ==
  LET verdict(b) == [ret |-> IF b THEN "true" ELSE "false", res |-> Thrown("", <<>>)]
  IN CASE h[id].validation = "string" -> verdict(stringValidation(value))
       [] h[id].validation = "number" -> verdict(numberValidation(value))
       [] h[id].validation = "boolean" -> verdict(booleanValidation(value))
       [] h[id].validation = "object" -> verdict(objectValidation(value))
       [] h[id].validation = "array" -> verdict(arrayValidation(value))
       [] h[id].validation = "union" -> unionValidation(h, id, value, 1, fuel, <<>>)
       [] OTHER -> verdict(TRUE)

\* a _parse whose failure carries the error but no errors list
_parseErrorOnly(h, id, value, parseOptions, fuel) ==
  LET result == validation(h, id, value, fuel)
  IN CASE result.ret = "thrown" -> result.res
       [] result.ret = "true" -> Valid(value, result.res.log)
       [] result.ret = "result" -> result.res
       [] OTHER ->
            LET error == [message |-> MessageText(h, id, h[id].message, value),
                          hasCause |-> FALSE, key |-> ""]
            IN Invalid(error, <<>>, result.res.log)

\* createSchemaInterface's _parse(value, parseOptions)
_parse(h, id, value, parseOptions, fuel) ==
  LET result == validation(h, id, value, fuel)
  IN CASE result.ret = "thrown" -> result.res
       [] result.ret = "true" -> Valid(value, result.res.log)
       [] result.ret = "result" -> result.res
       [] OTHER ->
            LET error == [message |-> MessageText(h, id, h[id].message, value),
                          hasCause |-> FALSE, key |-> ""]
            IN Invalid(error, <<error>>, result.res.log)

(***************************************************************************)
(* The hooks.  Each takes item, the result of the _parse it wraps          *)
(* (originalParse), and returns the result of the hooked _parse.  An       *)
(* exception in originalParse or in a callback leaves the hook: no hook    *)
(* catches.                                                                *)
(***************************************************************************)

\* a transform() that calls its callback whether or not originalParse
\* succeeded
transformHookAlways(item, callback) ==
  IF item.thrown THEN item
  ELSE LET r == ApplyTransform(callback, item.data)
       IN IF r.thrown THEN Thrown("callback", item.log)
          ELSE [item EXCEPT !.data = r.v, !.hasData = TRUE]

\* transform(callback)
transformHook(item, callback) ==
  IF item.thrown \/ ~item.success THEN item
  ELSE LET r == ApplyTransform(callback, item.data)
       IN IF r.thrown THEN Thrown("callback", item.log)
          ELSE [item EXCEPT !.data = r.v, !.hasData = TRUE]

\* an optional() that tests value == undefined, which null satisfies too
optionalHookLoose(item, value) ==
  IF ~item.thrown /\ ~item.success /\ (value = Undef \/ value = Null)
  THEN [item EXCEPT !.data = Undef, !.hasData = TRUE, !.success = TRUE]
  ELSE item

\* an optional() that reports a missing value as null
optionalHookNull(item, value) ==
  IF ~item.thrown /\ ~item.success /\ value = Undef
  THEN [item EXCEPT !.data = Null, !.hasData = TRUE, !.success = TRUE]
  ELSE item

\* optional(): the failed item is mutated, its error and errors stay
optionalHook(item, value) ==
  IF ~item.thrown /\ ~item.success /\ value = Undef
  THEN [item EXCEPT !.data = Undef, !.hasData = TRUE, !.success = TRUE]
  ELSE item

\* nullable()
nullableHook(item, value) ==
  IF ~item.thrown /\ ~item.success /\ value = Null
  THEN [item EXCEPT !.data = Null, !.hasData = TRUE, !.success = TRUE]
  ELSE item

\* a nullish() that reports null as undefined
nullishHookUndefined(item, value) ==
  IF ~item.thrown /\ ~item.success /\ (value = Undef \/ value = Null)
  THEN [item EXCEPT !.success = TRUE, !.data = Undef, !.hasData = TRUE]
  ELSE item

\* nullish()
nullishHook(item, value) ==
  IF ~item.thrown /\ ~item.success /\ (value = Undef \/ value = Null)
  THEN [item EXCEPT !.success = TRUE, !.data = value, !.hasData = TRUE]
  ELSE item

\* a default() that tests value || defaultValue
defaultValueForFalsy(value, hook) ==
  IF Falsy(value) THEN hook.dv ELSE value

\* a default() that calls the factory once and keeps what it returned
defaultValueForCached(value, hook) ==
  IF value = Undef
  THEN IF hook.isFn /\ hook.dv.n = 0 THEN Num(1) ELSE hook.dv
  ELSE value

\* default(defaultValue): the value originalParse is called with.  A
\* defaultValue that is a function is called: the factory modelled is the
\* counter () => ++counter, whose counter the hook holds in dv
defaultValueFor(value, hook) ==
  IF value = Undef
  THEN IF hook.isFn THEN Num(hook.dv.n + 1) ELSE hook.dv
  ELSE value

\* the call defaultValue() a default hook made, as an entry of the log
FactoryCall(by, at, value) ==
  [by |-> by, at |-> at, node |-> 0, v |-> value, o |-> "factory"]

\* a refine() that calls its predicate whether or not originalParse
\* succeeded
refineHookEager(h, id, parsedValue, value, hook) ==
  IF parsedValue.thrown THEN parsedValue
  ELSE LET refinementResult == ApplyPredicate(hook.cb, parsedValue.data)
       IN IF refinementResult.thrown THEN Thrown("callback", parsedValue.log)
          ELSE IF refinementResult.v = Bool(TRUE) THEN parsedValue
          ELSE LET error == [message |-> MessageText(h, id, hook.message, value),
                             hasCause |-> FALSE, key |-> ""]
               IN Invalid(error, <<error>>, parsedValue.log)

\* a refine() that also checks a value an earlier step rejected and adds
\* its own error to the list
refineHookCollect(h, id, parsedValue, value, hook) ==
  IF parsedValue.thrown THEN parsedValue
  ELSE LET refinementResult == ApplyPredicate(hook.cb, value)
       IN IF refinementResult.thrown THEN Thrown("callback", parsedValue.log)
          ELSE IF refinementResult.v = Bool(TRUE) THEN parsedValue
          ELSE LET error == [message |-> MessageText(h, id, hook.message, value),
                             hasCause |-> FALSE, key |-> ""]
               IN IF parsedValue.success
                  THEN Invalid(error, <<error>>, parsedValue.log)
                  ELSE Invalid(parsedValue.error, Append(parsedValue.errors, error),
                               parsedValue.log)

\* refine(validation, { message }) once originalParse returned parsedValue
refineHook(h, id, parsedValue, value, hook) ==
  IF parsedValue.thrown \/ ~parsedValue.success THEN parsedValue
  ELSE LET refinementResult == ApplyPredicate(hook.cb, parsedValue.data)
       IN IF refinementResult.thrown THEN Thrown("callback", parsedValue.log)
          ELSE IF refinementResult.v = Bool(TRUE) THEN parsedValue
          ELSE LET error == [message |-> MessageText(h, id, hook.message, value),
                             hasCause |-> FALSE, key |-> ""]
               IN Invalid(error, <<error>>, parsedValue.log)

\* a field loop that leaves out the fields the input has no key for
RECURSIVE objectLoopSkipAbsent(_, _, _, _, _, _, _, _, _)
objectLoopSkipAbsent(h, id, i, data, parseOptions, acc, errors, log, fuel) ==
  IF i > Len(h[id].definition)
  THEN IF Len(errors) > 0 THEN Invalid(errors[1], errors, log)
       ELSE Valid(Obj(acc), log)
  ELSE IF ~HasKey(data, h[id].definition[i].k)
  THEN objectLoopSkipAbsent(h, id, i + 1, data, parseOptions, acc, errors, log, fuel)
  ELSE LET key == h[id].definition[i].k
           item == Invoke(h, h[id].definition[i].id, GetKey(data, key),
                          parseOptions, fuel, id, i)
           log2 == log \o item.log
       IN IF item.thrown THEN WithLog(item, log2)
          ELSE IF item.success
          THEN objectLoopSkipAbsent(h, id, i + 1, data, parseOptions,
                          Append(acc, [k |-> key, v |-> item.data]), errors, log2, fuel)
          ELSE IF resolveParseOptions(parseOptions)
          THEN LET formattedError == formatError(item.error, Str(key))
               IN Invalid(formattedError, <<formattedError>>, log2)
          ELSE objectLoopSkipAbsent(h, id, i + 1, data, parseOptions, acc,
                          propagateNestedErrors(item, errors, Str(key)), log2, fuel)

\* a field loop that leaves a field whose child gave undefined out of the
\* result
RECURSIVE objectLoopOmitUndefined(_, _, _, _, _, _, _, _, _)
objectLoopOmitUndefined(h, id, i, data, parseOptions, acc, errors, log, fuel) ==
  IF i > Len(h[id].definition)
  THEN IF Len(errors) > 0 THEN Invalid(errors[1], errors, log)
       ELSE Valid(Obj(acc), log)
  ELSE LET key == h[id].definition[i].k
           item == Invoke(h, h[id].definition[i].id, GetKey(data, key),
                          parseOptions, fuel, id, i)
           log2 == log \o item.log
       IN IF item.thrown THEN WithLog(item, log2)
          ELSE IF item.success
          THEN objectLoopOmitUndefined(h, id, i + 1, data, parseOptions,
                          IF item.data = Undef THEN acc
                          ELSE Append(acc, [k |-> key, v |-> item.data]),
                          errors, log2, fuel)
          ELSE IF resolveParseOptions(parseOptions)
          THEN LET formattedError == formatError(item.error, Str(key))
               IN Invalid(formattedError, <<formattedError>>, log2)
          ELSE objectLoopOmitUndefined(h, id, i + 1, data, parseOptions, acc,
                          propagateNestedErrors(item, errors, Str(key)), log2, fuel)

\* the field loop of s.object's hook, from field number i on
objectLoop(h, id, i, data, parseOptions, acc, errors, log, fuel) ==
  IF i > Len(h[id].definition)
  THEN IF Len(errors) > 0 THEN Invalid(errors[1], errors, log)
       ELSE Valid(Obj(acc), log)
  ELSE LET key == h[id].definition[i].k
           item == Invoke(h, h[id].definition[i].id, GetKey(data, key),
                          parseOptions, fuel, id, i)
           log2 == log \o item.log
       IN IF item.thrown THEN WithLog(item, log2)
          ELSE IF item.success
          THEN objectLoop(h, id, i + 1, data, parseOptions,
                          Append(acc, [k |-> key, v |-> item.data]), errors, log2, fuel)
          ELSE IF resolveParseOptions(parseOptions)
          THEN LET formattedError == formatError(item.error, Str(key))
               IN Invalid(formattedError, <<formattedError>>, log2)
          ELSE objectLoop(h, id, i + 1, data, parseOptions, acc,
                          propagateNestedErrors(item, errors, Str(key)), log2, fuel)

\* s.object's hook on _parse
objectHook(h, id, value, parseOptions, fuel) ==
  IF value.thrown \/ ~value.success THEN value
  ELSE objectLoop(h, id, 1, value.data, parseOptions, <<>>, <<>>, value.log, fuel)

\* an element loop that goes on after a failure whatever abortEarly is and
\* reports the first error at the end
RECURSIVE arrayLoopToTheEnd(_, _, _, _, _, _, _, _, _)
arrayLoopToTheEnd(h, id, index, data, parseOptions, acc, errors, log, fuel) ==
  IF ~(index < Len(data.c))
  THEN IF Len(errors) > 0
       THEN IF resolveParseOptions(parseOptions)
            THEN Invalid(errors[1], <<errors[1]>>, log)
            ELSE Invalid(errors[1], errors, log)
       ELSE Valid(Arr(acc), log)
  ELSE LET item == Invoke(h, h[id].definition[1].id, data.c[index + 1],
                          parseOptions, fuel, id, index + 1)
           log2 == log \o item.log
       IN IF item.thrown THEN WithLog(item, log2)
          ELSE IF item.success
          THEN arrayLoopToTheEnd(h, id, index + 1, data, parseOptions,
                                 Append(acc, item.data), errors, log2, fuel)
          ELSE arrayLoopToTheEnd(h, id, index + 1, data, parseOptions, acc,
                                 propagateNestedErrors(item, errors, Num(index)),
                                 log2, fuel)

\* the element loop of s.array's hook, from index on (index counts from 0)
arrayLoop(h, id, index, data, parseOptions, acc, errors, log, fuel) ==
  IF ~(index < Len(data.c))
  THEN IF Len(errors) > 0 THEN Invalid(errors[1], errors, log)
       ELSE Valid(Arr(acc), log)
  ELSE LET item == Invoke(h, h[id].definition[1].id, data.c[index + 1],
                          parseOptions, fuel, id, index + 1)
           log2 == log \o item.log
       IN IF item.thrown THEN WithLog(item, log2)
          ELSE IF item.success
          THEN arrayLoop(h, id, index + 1, data, parseOptions,
                         Append(acc, item.data), errors, log2, fuel)
          ELSE IF resolveParseOptions(parseOptions)
          THEN LET formattedError == formatError(item.error, Num(index))
               IN Invalid(formattedError, <<formattedError>>, log2)
          ELSE arrayLoop(h, id, index + 1, data, parseOptions, acc,
                         propagateNestedErrors(item, errors, Num(index)), log2, fuel)

\* s.array's hook on _parse
arrayHook(h, id, value, parseOptions, fuel) ==
  IF value.thrown \/ ~value.success THEN value
  ELSE arrayLoop(h, id, 0, value.data, parseOptions, <<>>, <<>>, value.log, fuel)

\* pipe(schema) once originalParse returned item
pipeHook(h, id, lvl, item, parseOptions, fuel, hook) ==
  IF item.thrown \/ ~item.success THEN item
  ELSE LET r == Invoke(h, hook.target, item.data, parseOptions, fuel, id, lvl)
       IN WithLog(r, item.log \o r.log)

\* the options s.preprocess hands to originalParse: originalParse(value)
preprocessOptions(parseOptions) == PoUndefined

\* node id's _parse as it was after its first lvl hooks: lvl = 0 is the
\* _parse createSchemaInterface defines, hooks[lvl] wraps level lvl - 1
ParseAt(h, id, lvl, value, parseOptions, fuel) ==
  IF lvl = 0 THEN _parse(h, id, value, parseOptions, fuel)
  ELSE LET hook == h[id].hooks[lvl]
           original(v, po) == ParseAt(h, id, lvl - 1, v, po, fuel)
       IN CASE hook.h = "object" ->
                 objectHook(h, id, original(value, parseOptions), parseOptions, fuel)
            [] hook.h = "array" ->
                 arrayHook(h, id, original(value, parseOptions), parseOptions, fuel)
            [] hook.h = "transform" ->
                 transformHook(original(value, parseOptions), hook.cb)
            [] hook.h = "optional" ->
                 optionalHook(original(value, parseOptions), value)
            [] hook.h = "nullable" ->
                 nullableHook(original(value, parseOptions), value)
            [] hook.h = "nullish" ->
                 nullishHook(original(value, parseOptions), value)
            [] hook.h = "default" ->
                 LET v == defaultValueFor(value, hook)
                     r == original(v, parseOptions)
                 IN IF hook.isFn /\ value = Undef
                    THEN WithLog(r, <<FactoryCall(id, lvl, v)>> \o r.log)
                    ELSE r
            [] hook.h = "pipe" ->
                 pipeHook(h, id, lvl, original(value, parseOptions), parseOptions,
                          fuel, hook)
            [] hook.h = "refine" ->
                 refineHook(h, id, original(value, parseOptions), value, hook)
            [] OTHER ->
                 LET r == ApplyPreprocess(hook.cb, value)
                 IN IF r.thrown THEN Thrown("callback", <<>>)
                    ELSE original(r.v, preprocessOptions(parseOptions))

(***************************************************************************)
(* The public entry points.                                                *)
(***************************************************************************)

\* safeParse(value, parseOptions): defaultInterface._parse(value, parseOptions)
safeParse(h, id, value, parseOptions) ==
  Invoke(h, id, value, parseOptions, StackLimit, 0, 0)

\* what a call of parse() does: it returns data or raises an Error
Return(data) == [raised |-> FALSE, data |-> data, message |-> "", hasCause |-> FALSE,
                 key |-> ""]
Raise(message, hasCause, key) ==
  [raised |-> TRUE, data |-> Undef, message |-> message, hasCause |-> hasCause,
   key |-> key]

\* the message property of new Error(message): an undefined message leaves
\* the property to Error.prototype.message, the empty string
ErrorMessage(message) ==
  IF message = Undef THEN "" ELSE TemplateString(message)

\* parse(value, parseOptions)
parse(h, id, value, parseOptions) ==
  LET item == Invoke(h, id, value, parseOptions, StackLimit, 0, 0)
  IN IF item.thrown THEN Raise(item.exn, FALSE, "")
     ELSE IF ~item.success
     THEN Raise(ErrorMessage(item.error.message), item.error.hasCause, item.error.key)
     ELSE Return(item.data)

(***************************************************************************)
(* Construction.                                                           *)
(***************************************************************************)

\* createSchemaInterface(validation, { type, message }): the default
\* interface, with message = message || errorMessageFactory(type)
createSchemaInterface(validationName, type, message) ==
  [type |-> type,
   validation |-> validationName,
   message |-> IF message = MsgUndefined THEN MsgFactory(type) ELSE message,
   definition |-> <<>>,
   hooks |-> <<>>,
   extended |-> <<>>]

\* a fold that runs the callbacks from the last registered to the first
\* (reduceRight)
RECURSIVE reduceExtendersRight(_, _)
reduceExtendersRight(registry, acc) ==
  IF Len(registry) = 0 THEN acc
  ELSE reduceExtendersRight(SubSeq(registry, 1, Len(registry) - 1),
                            [acc EXCEPT !.extended = Append(@, registry[Len(registry)])])

\* the end of createSchemaInterface: extenders.reduce((acc, extend) =>
\* extend(acc, validation, createdOptions) ?? acc, defaultInterface), each
\* callback noting on the node that it was passed it
RECURSIVE reduceExtenders(_, _)
reduceExtenders(registry, acc) ==
  IF Len(registry) = 0 THEN acc
  ELSE reduceExtenders(Tail(registry),
                       [acc EXCEPT !.extended = Append(@, Head(registry))])

\* hookOriginal(object, '_parse', action): the node with one more hook
hookOriginal(node, hook) == [node EXCEPT !.hooks = Append(@, hook)]

Child(k, id) == [k |-> k, id |-> id]

sString == createSchemaInterface("string", "string", MsgUndefined)
sNumber == createSchemaInterface("number", "number", MsgUndefined)
sBoolean == createSchemaInterface("boolean", "boolean", MsgUndefined)
sAny == createSchemaInterface("any", "any", MsgUndefined)

\* s.object(definition)
sObject(definition) ==
  hookOriginal([createSchemaInterface("object", "object", MsgUndefined)
                  EXCEPT !.definition = definition],
               Hook("object"))

\* s.array(definition)
sArray(id) ==
  hookOriginal([createSchemaInterface("array", "array", MsgUndefined)
                  EXCEPT !.definition = <<Child("", id)>>],
               Hook("array"))

\* s.union(definitions)
sUnion(ids) ==
  [createSchemaInterface("union", "union", MsgUnion)
     EXCEPT !.definition = [i \in 1..Len(ids) |-> Child("", ids[i])]]

transformOf(callback) == [Hook("transform") EXCEPT !.cb = callback]
defaultOf(dv) == [Hook("default") EXCEPT !.dv = dv]
\* default(() => ++counter) for a counter that stands at count
defaultOfFactory(count) == [Hook("default") EXCEPT !.isFn = TRUE, !.dv = Num(count)]
pipeOf(target) == [Hook("pipe") EXCEPT !.target = target]
preprocessOf(callback) == [Hook("preprocess") EXCEPT !.cb = callback]

\* the hook of refine(validation, { message }): without a message option
\* the message stays undefined
refineOf(callback, message) ==
  [Hook("refine") EXCEPT !.cb = callback, !.message = message]

(***************************************************************************)
(* The state: the heap of nodes built so far, the last call of safeParse   *)
(* or parse with what it gave back, and the registry of extend()           *)
(* callbacks (a module-level list).  The caller looks at one               *)
(* result at a time: it builds and calls only once it has dropped the      *)
(* result of the call before.                                              *)
(***************************************************************************)
NoResult == Thrown("none", <<>>)
NoCall ==
  [op |-> "none", node |-> 0, value |-> Undef, po |-> PoUndefined,
   out |-> NoResult, ret |-> Return(Undef)]

Ids == 1..Len(nodes)

\* the modifiers a node carries, the hook s.object / s.array installs apart
Modifiers(node) == SelectSeq(node.hooks, LAMBDA k : k.h \notin {"object", "array"})

\* a caller builds a leaf node
NewLeaf(node) ==
  /\ last = NoCall
  /\ nodes' = Append(nodes, reduceExtenders(extenders, node))
  /\ UNCHANGED <<last, extenders>>

\* s.object(definition) over nodes built before
object(definition) ==
  /\ last = NoCall
  /\ \A i \in 1..Len(definition) : definition[i].id \in Ids
  /\ \A i, j \in 1..Len(definition) : i # j => definition[i].k # definition[j].k
  /\ nodes' = Append(nodes, reduceExtenders(extenders, sObject(definition)))
  /\ UNCHANGED <<last, extenders>>

\* s.array(definition) over a node built before
array(id) ==
  /\ last = NoCall
  /\ id \in Ids
  /\ nodes' = Append(nodes, reduceExtenders(extenders, sArray(id)))
  /\ UNCHANGED <<last, extenders>>

\* s.union(definitions) over nodes built before
union(ids) ==
  /\ last = NoCall
  /\ \A i \in 1..Len(ids) : ids[i] \in Ids
  /\ nodes' = Append(nodes, reduceExtenders(extenders, sUnion(ids)))
  /\ UNCHANGED <<last, extenders>>

\* a modifier call that leaves the node alone and returns a copy of it
\* with one more hook
AttachCopy(id, hook) ==
  /\ last = NoCall
  /\ id \in Ids
  /\ nodes' = Append(nodes, hookOriginal(nodes[id], hook))
  /\ UNCHANGED <<last, extenders>>

\* a modifier call on node id: the node itself gets one more hook
Attach(id, hook) ==
  /\ last = NoCall
  /\ id \in Ids
  /\ nodes' = [nodes EXCEPT ![id] = hookOriginal(@, hook)]
  /\ UNCHANGED <<last, extenders>>

optional(id) == Attach(id, Hook("optional"))
nullable(id) == Attach(id, Hook("nullable"))
nullish(id) == Attach(id, Hook("nullish"))
default(id, dv) == Attach(id, defaultOf(dv))
transform(id, callback) == Attach(id, transformOf(callback))
refine(id, callback, message) == Attach(id, refineOf(callback, message))
pipe(id, target) == target \in Ids /\ Attach(id, pipeOf(target))
preprocess(callback, id) == Attach(id, preprocessOf(callback))

\* a safeParse that takes the outermost hook off the node once it ran
CallSafeParseOnce(id, value, parseOptions) ==
  /\ last = NoCall
  /\ id \in Ids
  /\ last' = [op |-> "safeParse", node |-> id, value |-> value, po |-> parseOptions,
              out |-> safeParse(nodes, id, value, parseOptions),
              ret |-> Return(Undef)]
  /\ nodes' = [nodes EXCEPT ![id].hooks = SubSeq(@, 1, Len(@) - 1)]
  /\ UNCHANGED extenders

\* schema.safeParse(value, parseOptions) on node id
CallSafeParse(id, value, parseOptions) ==
  /\ last = NoCall
  /\ id \in Ids
  /\ last' = [op |-> "safeParse", node |-> id, value |-> value, po |-> parseOptions,
              out |-> safeParse(nodes, id, value, parseOptions),
              ret |-> Return(Undef)]
  /\ UNCHANGED <<nodes, extenders>>

\* schema.parse(value, parseOptions) on node id
CallParse(id, value, parseOptions) ==
  /\ last = NoCall
  /\ id \in Ids
  /\ last' = [op |-> "parse", node |-> id, value |-> value, po |-> parseOptions,
              out |-> NoResult,
              ret |-> parse(nodes, id, value, parseOptions)]
  /\ UNCHANGED <<nodes, extenders>>

\* the caller is done with the result of the last call
DropResult ==
  /\ last # NoCall
  /\ last' = NoCall
  /\ UNCHANGED <<nodes, extenders>>

(***************************************************************************)
(* Object schemas.  A caller holds s.string(), s.number() and the nested   *)
(* schema  s.object({ a: s.object({ b: s.string() }), b: s.number() }),    *)
(* builds further object schemas over the nodes built so far, and parses   *)
(* with the schema built last (no build changes a schema built before).    *)
(***************************************************************************)
MaxObjects == 3

FieldNames == {"a", "b"}

\* the definitions a caller can write over the nodes ids: every sequence
\* of fields with distinct names
Definitions(ids) ==
  { <<>> }
    \cup { <<Child(k, id)>> : k \in FieldNames, id \in ids }
    \cup { <<Child(k1, id1), Child(k2, id2)>> :
             <<k1, k2>> \in {kk \in FieldNames \X FieldNames : kk[1] # kk[2]},
             <<id1, id2>> \in ids \X ids }

\* an input object: per field name a value, or Absent for a missing key
Absent == [t |-> "absent", n |-> 0, s |-> "", c |-> <<>>]
Entry(k, v) == IF v = Absent THEN <<>> ELSE <<[k |-> k, v |-> v]>>
ObjectOf(a, b) == Obj(Entry("a", a) \o Entry("b", b))

FieldValues == {Absent, Num(1), Str("x")}
InnerObjects ==
  { ObjectOf(Absent, Num(1)), ObjectOf(Absent, Str("x")),
    ObjectOf(ObjectOf(Absent, Num(1)), Str("x")),
    ObjectOf(ObjectOf(Absent, Str("x")), Num(1)) }
ObjectInputs ==
  { ObjectOf(a, b) : a \in FieldValues \cup InnerObjects,
                     b \in FieldValues \cup InnerObjects }
    \cup {Undef, Num(1)}

ObjectIds == { id \in Ids : nodes[id].validation = "object" }

InitObject ==
  /\ nodes = <<sString, sNumber, sObject(<<Child("b", 1)>>),
               sObject(<<Child("a", 3), Child("b", 2)>>)>>
  /\ last = NoCall
  /\ extenders = <<>>

NextObject ==
  \/ \E d \in Definitions(Ids) :
       Cardinality(ObjectIds) < MaxObjects /\ object(d)
  \/ \E v \in ObjectInputs, po \in {PoUndefined, PoCollectAll} :
       CallSafeParse(Len(nodes), v, po)
  \/ DropResult

SpecObject == InitObject /\ [][NextObject]_vars

\* the last call was safeParse of an object value on an object schema
ObjectCall ==
  /\ last.op = "safeParse"
  /\ nodes[last.node].validation = "object"
  /\ last.value.t = "object"

\* the fields of object node id are all primitive schemas
PrimitiveFields(id) ==
  \A i \in 1..Len(nodes[id].definition) :
    nodes[nodes[id].definition[i].id].validation \in {"string", "number"}

\* the numbers of the declared fields of id whose value in v has the wrong
\* runtime type, in declaration order
FailingFields(id, v) ==
  SelectSeq([i \in 1..Len(nodes[id].definition) |-> i],
            LAMBDA i : TypeOf(GetKey(v, nodes[id].definition[i].k))
                         # nodes[nodes[id].definition[i].id].type)

\* the error an object reports for its failing primitive field number i
FieldError(id, v, i) ==
  LET k == nodes[id].definition[i].k
  IN [message |-> Str("Error parsing key \"" \o k \o "\": "
                      \o errorMessageFactory(nodes[nodes[id].definition[i].id].type,
                                             GetKey(v, k))),
      hasCause |-> TRUE,
      key |-> k]

\* C1: for an object schema whose fields are primitive schemas and an input
\* object in which k >= 1 declared fields fail, safeParse with default
\* options fails with exactly one error, that of the first failing field in
\* declaration order, and safeParse with {abortEarly:false} fails with
\* exactly k errors, one per failing field in declaration order, and error
\* equal to the first of them.
C1_AbortEarlyAndCollectAll ==
  LET failing == FailingFields(last.node, last.value)
      expected == [j \in 1..Len(failing) |->
                     FieldError(last.node, last.value, failing[j])]
  IN (ObjectCall /\ PrimitiveFields(last.node) /\ Len(failing) >= 1) =>
       /\ ~last.out.thrown /\ ~last.out.success /\ last.out.hasError
       /\ last.po = PoUndefined =>
            last.out.errors = <<expected[1]>> /\ last.out.error = expected[1]
       /\ last.po = PoCollectAll =>
            last.out.errors = expected /\ last.out.error = last.out.errors[1]

\* an object with two primitive fields was parsed with {abortEarly:false},
\* both fields failed and two errors came back
C1_Witness ==
  /\ ObjectCall /\ PrimitiveFields(last.node)
  /\ last.po = PoCollectAll
  /\ Len(FailingFields(last.node, last.value)) = 2
  /\ Len(last.out.errors) = 2

RECURSIVE Flatten(_)
Flatten(seqs) == IF Len(seqs) = 0 THEN <<>> ELSE Head(seqs) \o Flatten(Tail(seqs))

\* the paths of field names from node id down to every schema that rejects
\* its part of v, depth first in declaration order; the empty path when id
\* itself rejects v
RECURSIVE FailingPaths(_, _)
FailingPaths(id, v) ==
  IF nodes[id].validation # "object"
  THEN IF TypeOf(v) = nodes[id].type THEN <<>> ELSE << <<>> >>
  ELSE IF v.t # "object" THEN << <<>> >>
  ELSE LET def == nodes[id].definition
           below(i) == FailingPaths(def[i].id, GetKey(v, def[i].k))
       IN Flatten([i \in 1..Len(def) |->
                     [j \in 1..Len(below(i)) |-> <<def[i].k>> \o below(i)[j]]])

MaxArrays == 2
MaxLen == 3

Elements ==
  { Num(1), Str("two"), Str("four"), Obj(<<[k |-> "a", v |-> Str("x")]>>),
    Arr(<<Num(1), Str("two")>>) }

RECURSIVE SeqsUpTo(_, _)
SeqsUpTo(S, n) ==
  IF n = 0 THEN { <<>> }
  ELSE LET shorter == SeqsUpTo(S, n - 1)
       IN shorter \cup { Append(q, x) : q \in { r \in shorter : Len(r) = n - 1 }, x \in S }

ArrayInputs == { Arr(items) : items \in SeqsUpTo(Elements, MaxLen) } \cup {Undef, Str("two")}

ArrayIds == { id \in Ids : nodes[id].validation = "array" }

InitArray ==
  /\ nodes = <<sNumber, sString, sObject(<<Child("a", 1)>>)>>
  /\ last = NoCall
  /\ extenders = <<>>

NextArray ==
  \/ \E id \in Ids : Cardinality(ArrayIds) < MaxArrays /\ array(id)
  \/ \E v \in ArrayInputs, po \in {PoUndefined, PoCollectAll} :
       nodes[Len(nodes)].validation = "array" /\ CallSafeParse(Len(nodes), v, po)
  \/ DropResult

SpecArray == InitArray /\ [][NextArray]_vars

\* the last call was safeParse of an array value on an array schema
ArrayCall ==
  /\ last.op = "safeParse"
  /\ nodes[last.node].validation = "array"
  /\ last.value.t = "array"

\* the element schema of array node id
ElementOf(id) == nodes[id].definition[1].id

\* what the element schema alone says of the element at index i (from 0)
ElementResult(i) ==
  safeParse(nodes, ElementOf(last.node), last.value.c[i + 1], last.po)

\* the indices (from 0) of the elements the element schema rejects, ascending
FailingIndices ==
  SelectSeq([j \in 1..Len(last.value.c) |-> j - 1],
            LAMBDA i : ~ElementResult(i).success)

\* the key the error e of the element at index i is to be reported under
IndexKey(i, e) ==
  IF e.hasCause /\ e.key # "" THEN ToString(i) \o "." \o e.key ELSE ToString(i)

PrimitiveElement(id) == nodes[ElementOf(id)].validation \in {"string", "number"}

\* the message of the element schema's own error for the element at index i
ElementMessage(i) ==
  errorMessageFactory(nodes[ElementOf(last.node)].type, last.value.c[i + 1])

\* the indices (from 0) of the elements of the wrong runtime type, ascending
WrongTypeIndices ==
  SelectSeq([j \in 1..Len(last.value.c) |-> j - 1],
            LAMBDA i : TypeOf(last.value.c[i + 1]) # nodes[ElementOf(last.node)].type)

\* C4: for s.array(E) with a primitive element schema E, safeParse(v,
\* {abortEarly:false}) on an array v returns exactly one error per failing
\* element, in ascending index order: the j-th error is the failing
\* element's own error, keyed by its index for every index after 0.  When
\* no element fails the data is an array of the same length holding each
\* element's output in input order.
C4_ArrayCollectAll ==
  LET failing == WrongTypeIndices
  IN (ArrayCall /\ PrimitiveElement(last.node) /\ last.po = PoCollectAll) =>
       /\ ~last.out.thrown
       /\ last.out.success <=> Len(failing) = 0
       /\ Len(failing) = 0 =>
            /\ last.out.hasData /\ last.out.data.t = "array"
            /\ Len(last.out.data.c) = Len(last.value.c)
            /\ \A j \in 1..Len(last.value.c) :
                 last.out.data.c[j] = ElementResult(j - 1).data
       /\ Len(failing) >= 1 =>
            /\ Len(last.out.errors) = Len(failing)
            /\ last.out.error = last.out.errors[1]
            /\ \A j \in 1..Len(failing) :
                 LET i == failing[j]
                     keyed == "Error parsing key \"" \o ToString(i) \o "\": "
                                \o ElementMessage(i)
                 IN IF i = 0
                    THEN last.out.errors[j].message \in {Str(ElementMessage(i)), Str(keyed)}
                    ELSE /\ last.out.errors[j].message = Str(keyed)
                         /\ last.out.errors[j].hasCause
                         /\ last.out.errors[j].key = ToString(i)

\* [1, "two", "four"] was parsed by s.array(s.number()) with
\* {abortEarly:false}: two errors, for the indices 1 and 2
C4_Witness ==
  /\ ArrayCall /\ PrimitiveElement(last.node) /\ last.po = PoCollectAll
  /\ last.value = Arr(<<Num(1), Str("two"), Str("four")>>)
  /\ nodes[ElementOf(last.node)].type = "number"
  /\ [j \in 1..Len(last.out.errors) |-> last.out.errors[j].key] = <<"1", "2">>

(***************************************************************************)
(* Modifier chains.  A caller holds one leaf schema, s.string() or         *)
(* s.number(), calls modifiers on it and parses primitive values with it,  *)
(* by safeParse and by parse.                                              *)
(***************************************************************************)
MaxChain == 2

Primitives == {Undef, Null, Num(0), Num(1), Str(""), Str("x"), Bool(FALSE)}
DefaultValues == {Num(999), Str("d")}

InitModifier ==
  /\ nodes \in {<<sString>>, <<sNumber>>}
  /\ last = NoCall
  /\ extenders = <<>>

\* node id can take one more modifier
CanChain(id) == Len(nodes[id].hooks) < MaxChain

NextModifier ==
  \/ \E id \in Ids : CanChain(id) /\ optional(id)
  \/ \E id \in Ids : CanChain(id) /\ nullable(id)
  \/ \E id \in Ids : CanChain(id) /\ nullish(id)
  \/ \E id \in Ids, dv \in DefaultValues : CanChain(id) /\ default(id, dv)
  \/ \E id \in Ids : CanChain(id) /\ transform(id, "first")
  \/ \E id \in Ids : CanChain(id) /\ refine(id, "truthy", MsgConst("refined"))
  \/ \E id \in Ids, v \in Primitives : CallSafeParse(id, v, PoUndefined)
  \/ \E id \in Ids, v \in Primitives : CallParse(id, v, PoUndefined)
  \/ DropResult

SpecModifier == InitModifier /\ [][NextModifier]_vars

\* the hook the last modifier call put on the node last parsed with
TopHook == nodes[last.node].hooks[Len(nodes[last.node].hooks)]

\* the last call was made on a node whose last modifier is one of names
ModifierCall(op, names) ==
  /\ last.op = op
  /\ Len(nodes[last.node].hooks) >= 1
  /\ TopHook.h \in names

\* what the pipeline built before the last modifier says of value
Previous(value) ==
  ParseAt(nodes, last.node, Len(nodes[last.node].hooks) - 1, value, last.po,
          StackLimit - 1)

\* two results that differ in nothing but the calls they logged
Same(r1, r2) == WithLog(r1, <<>>) = WithLog(r2, <<>>)

C6_DefaultOnlyForUndefined ==
  /\ ModifierCall("safeParse", {"default"}) =>
       /\ last.value = Undef => Same(last.out, Previous(TopHook.dv))
       /\ last.value # Undef => Same(last.out, Previous(last.value))
  /\ (ModifierCall("parse", {"default"}) /\ last.value # Undef) =>
       IF Previous(last.value).success
       THEN last.ret = Return(Previous(last.value).data)
       ELSE last.ret.raised

\* s.number().default(999).parse(0) returned 0
C6_Witness ==
  /\ ModifierCall("parse", {"default"})
  /\ nodes[last.node].type = "number"
  /\ Len(nodes[last.node].hooks) = 1
  /\ TopHook.dv = Num(999)
  /\ last.value = Num(0)
  /\ last.ret = Return(Num(0))

(***************************************************************************)
(* Union schemas.  A caller holds s.string().transform(() => 'first'),     *)
(* s.string().transform(() => 'second'), s.number() and                    *)
(* s.string().optional(), builds unions over the nodes built so far        *)
(* (unions of unions included) and parses with the union built last.       *)
(***************************************************************************)
MaxUnions == 1
MaxCandidates == 2

UnionInputs == {Undef, Null, Num(1), Str("x"), Arr(<<Str("x")>>)}

UnionIds == { id \in Ids : nodes[id].validation = "union" }

InitUnion ==
  /\ nodes = <<hookOriginal(sString, transformOf("first")),
               hookOriginal(sString, transformOf("second")),
               sNumber,
               hookOriginal(sString, Hook("optional"))>>
  /\ last = NoCall
  /\ extenders = <<>>

NextUnion ==
  \/ \E n \in 0..MaxCandidates : \E ids \in [1..n -> Ids] :
       Cardinality(UnionIds) < MaxUnions /\ union(ids)
  \/ \E v \in UnionInputs, po \in {PoUndefined, PoCollectAll} :
       nodes[Len(nodes)].validation = "union" /\ CallSafeParse(Len(nodes), v, po)
  \/ DropResult

SpecUnion == InitUnion /\ [][NextUnion]_vars

\* the last call was safeParse on a union schema
UnionCall ==
  /\ last.op = "safeParse"
  /\ nodes[last.node].validation = "union"

\* what candidate number i of the union alone says of the input
Candidate(i) ==
  safeParse(nodes, nodes[last.node].definition[i].id, last.value, last.po)

\* the numbers of the candidates that accept the input
Matching == { i \in 1..Len(nodes[last.node].definition) : Candidate(i).success }

\* the candidate numbers of the _parse calls the union itself made, in order
Invoked ==
  LET own == SelectSeq(last.out.log, LAMBDA e : e.by = last.node)
  IN [j \in 1..Len(own) |-> own[j].at]

\* C7: a union's result on input v is the result of the lowest-index
\* candidate whose _parse succeeds on v: its data is the union's data even
\* when a later candidate would succeed too, and the union invokes the
\* candidates up to that one, in order, and none after it.
C7_UnionFirstMatch ==
  (UnionCall /\ Matching # {}) =>
    LET first == CHOOSE i \in Matching : \A j \in Matching : i <= j
    IN /\ last.out.success /\ last.out.hasData
       /\ last.out.data = Candidate(first).data
       /\ Invoked = [j \in 1..first |-> j]

\* "x" was parsed by the union of the two transforming string schemas:
\* both accept it, and the data is that of the first
C7_Witness ==
  /\ UnionCall
  /\ Cardinality(Matching) = 2
  /\ nodes[last.node].definition = <<Child("", 1), Child("", 2)>>
  /\ last.out.data = Str("first")
  /\ Invoked = <<1>>

MaxHooks == 1

Inputs ==
  { Undef, Null, Num(1), Str("x"), ObjectOf(Num(1), Str("x")),
    ObjectOf(Str("x"), Num(1)), Arr(<<Num(1), Str("x")>>) }

\* the number of modifier calls made on the nodes 1..n so far
RECURSIVE ModifierCalls(_)
ModifierCalls(n) ==
  IF n = 0 THEN 0 ELSE Len(Modifiers(nodes[n])) + ModifierCalls(n - 1)

CanModify == ModifierCalls(Len(nodes)) < MaxHooks

Init ==
  /\ nodes = <<sString, sNumber, sObject(<<Child("a", 1), Child("b", 2)>>),
               sArray(2), sUnion(<<1, 2>>)>>
  /\ last = NoCall
  /\ extenders = <<>>

Next ==
  \/ \E id \in Ids : CanModify /\ optional(id)
  \/ \E id \in Ids : CanModify /\ nullable(id)
  \/ \E id \in Ids : CanModify /\ nullish(id)
  \/ \E id \in Ids : CanModify /\ default(id, Num(999))
  \/ \E id \in Ids, cb \in {"first", "throws"} : CanModify /\ transform(id, cb)
  \/ \E id \in Ids : CanModify /\ refine(id, "truthy", MsgConst("refined"))
  \/ \E id \in Ids, cb \in {"never", "throws"} :
       CanModify /\ refine(id, cb, MsgUndefined)
  \/ \E id \in Ids, target \in Ids : CanModify /\ pipe(id, target)
  \/ \E id \in Ids, cb \in {"String", "throws"} : CanModify /\ preprocess(cb, id)
  \/ \E id \in Ids, v \in Inputs, po \in {PoUndefined, PoCollectAll} :
       CallSafeParse(id, v, po)
  \/ \E id \in Ids, v \in Inputs, po \in {PoUndefined, PoCollectAll} :
       CallParse(id, v, po)
  \/ DropResult

Spec == Init /\ [][Next]_vars

\* C9: for every schema, input v and options o, parse(v, o) raises if and
\* only if safeParse(v, o).success is false; when it does not raise it
\* returns safeParse(v, o).data, and when it raises the error's message
\* equals safeParse(v, o).error.message and its cause equals
\* safeParse(v, o).error.cause (checked wherever safeParse returns).
C9_ParseAgreesWithSafeParse ==
  LET result == safeParse(nodes, last.node, last.value, last.po)
  IN (last.op = "parse" /\ ~result.thrown) =>
       /\ last.ret.raised <=> ~result.success
       /\ ~last.ret.raised => last.ret.data = result.data
       /\ last.ret.raised =>
            /\ Str(last.ret.message) = result.error.message
            /\ last.ret.hasCause = result.error.hasCause
            /\ last.ret.key = result.error.key

\* C10: safeParse never raises: for every schema built from the
\* constructors and modifiers, with any transform, refine and preprocess
\* callbacks, and for every input, the call returns a ParseResult.
C10_SafeParseNeverRaises ==
  last.op = "safeParse" => ~last.out.thrown


(***************************************************************************)
(* The options of a call and the nested calls made while serving it.       *)
(***************************************************************************)
NestedCalls == last.out.log

\* C11: the options value given to a root parse / safeParse call is passed
\* unchanged to every nested _parse call made while serving it (object
\* fields, array elements, union candidates, piped schemas, the node wrapped
\* by s.preprocess): no nested call runs with missing or different options.
C11_OptionsPropagated ==
  last.op # "none" =>
    \A j \in 1..Len(NestedCalls) : NestedCalls[j].o = last.po


(***************************************************************************)
(* Modifiers on an object node.  A caller holds                            *)
(* s.object({ a: s.string(), b: s.string().optional() }) and calls         *)
(* modifiers on the object node itself; each modifier wraps the _parse     *)
(* the node has at that moment, s.object's hook included.                  *)
(***************************************************************************)
MaxOwn == 2

OwnNode == 3
DefaultObject == ObjectOf(Str("d"), Absent)
OwnInputs ==
  {Undef, Null, Num(1)} \cup
  {ObjectOf(a, b) : a \in {Absent, Str("x"), Num(1)}, b \in {Absent, Str("x"), Num(1)}}

InitOwn ==
  /\ nodes = <<sString, hookOriginal(sString, Hook("optional")),
               sObject(<<Child("a", 1), Child("b", 2)>>)>>
  /\ last = NoCall
  /\ extenders = <<>>

CanOwn == Len(Modifiers(nodes[OwnNode])) < MaxOwn

NextOwn ==
  \/ CanOwn /\ optional(OwnNode)
  \/ CanOwn /\ nullable(OwnNode)
  \/ CanOwn /\ default(OwnNode, DefaultObject)
  \/ CanOwn /\ transform(OwnNode, "first")
  \/ \E cb \in {"never", "always"} :
       CanOwn /\ refine(OwnNode, cb, MsgConst("rejected"))
  \/ \E v \in OwnInputs, po \in {PoUndefined, PoCollectAll} :
       CallSafeParse(OwnNode, v, po)
  \/ DropResult

SpecOwn == InitOwn /\ [][NextOwn]_vars

\* the object node carries a modifier of this kind
Owns(name) == \E i \in 1..Len(nodes[OwnNode].hooks) : nodes[OwnNode].hooks[i].h = name
OwnsRejectingRefine ==
  \E i \in 1..Len(nodes[OwnNode].hooks) :
    nodes[OwnNode].hooks[i].h = "refine" /\ nodes[OwnNode].hooks[i].cb = "never"

\* the value the object's type check sees: a default on the node replaces
\* undefined before anything else runs
OwnValue == IF last.value = Undef /\ Owns("default") THEN DefaultObject ELSE last.value

\* the nested calls the object node itself made: its fields
FieldCalls == SelectSeq(NestedCalls, LAMBDA ev : ev.by = OwnNode)

\* the fields of a: s.string(), b: s.string().optional() that reject what
\* the object holds for them, by typeof alone
BadFields(v) ==
  {k \in {"a", "b"} :
     LET t == TypeOf(GetKey(v, k))
     IN IF k = "a" THEN t # "string" ELSE t \notin {"string", "undefined"}}

OwnCall == last.op = "safeParse" /\ last.node = OwnNode /\ ~last.out.thrown

MaxFields == 2

FieldKey(i) == "f" \o ToString(i)
FieldValuesOrNone == {Absent, Undef, Null, Num(1), Str("x")}

\* the input object holding vals[i] under the i-th key, no key for Absent
FieldObject(vals) ==
  Obj(SelectSeq([i \in 1..Len(vals) |-> [k |-> FieldKey(i), v |-> vals[i]]],
                LAMBDA entry : entry.v # Absent))

InitField ==
  /\ nodes = <<sString,
               hookOriginal(sNumber, Hook("nullable")),
               hookOriginal(sString, Hook("optional")),
               hookOriginal(sNumber, Hook("nullish")),
               hookOriginal(sString, defaultOf(Str("d"))),
               sAny>>
  /\ last = NoCall
  /\ extenders = <<>>

FieldObjectBuilt == nodes[Len(nodes)].validation = "object"

NextField ==
  \/ \E n \in 1..MaxFields : \E ids \in [1..n -> Ids] :
       /\ ~FieldObjectBuilt
       /\ object([i \in 1..n |-> Child(FieldKey(i), ids[i])])
  \/ \E n \in 1..MaxFields : \E vals \in [1..n -> FieldValuesOrNone] :
     \E po \in {PoUndefined, PoCollectAll} :
       /\ FieldObjectBuilt
       /\ CallSafeParse(Len(nodes), FieldObject(vals), po)
  \/ DropResult

SpecField == InitField /\ [][NextField]_vars

FieldCall == last.op = "safeParse"
FieldsOf == nodes[last.node].definition
AbsentFields == {i \in 1..Len(FieldsOf) : ~HasKey(last.value, FieldsOf[i].k)}

\* the child schema itself accepts undefined: s.any(), or a leaf carrying
\* optional, nullish or default
AcceptsUndefined(id) ==
  \/ nodes[id].validation = "any"
  \/ \E j \in 1..Len(nodes[id].hooks) :
       nodes[id].hooks[j].h \in {"optional", "nullish", "default"}

RequiredFields == {i \in 1..Len(FieldsOf) : ~AcceptsUndefined(FieldsOf[i].id)}

\* what an accepted undefined becomes in the output
UndefinedData(id) ==
  IF \E j \in 1..Len(nodes[id].hooks) : nodes[id].hooks[j].h = "default"
  THEN Str("d") ELSE Undef

ErrorKeys ==
  {last.out.errors[j].key :
     j \in {jj \in 1..Len(last.out.errors) : last.out.errors[jj].hasCause}}

\* C13: a declared field absent from the input object is parsed by its
\* child schema with the value undefined: the object parse fails with an
\* error keyed by that field unless the child schema itself accepts
\* undefined (optional, nullish, default, any); {} against an object with n
\* required fields yields n errors under {abortEarly:false}.
C13_AbsentFieldIsUndefined ==
  FieldCall =>
    /\ \A i \in AbsentFields : \A j \in 1..Len(NestedCalls) :
         (NestedCalls[j].by = last.node /\ NestedCalls[j].at = i) =>
           (NestedCalls[j].v = Undef /\ NestedCalls[j].node = FieldsOf[i].id)
    /\ last.po = PoCollectAll =>
         \A i \in AbsentFields :
           /\ \E j \in 1..Len(NestedCalls) :
                NestedCalls[j].by = last.node /\ NestedCalls[j].at = i
           /\ (~last.out.success /\ FieldsOf[i].k \in ErrorKeys) <=> i \in RequiredFields
    /\ AbsentFields = 1..Len(FieldsOf) =>
         IF RequiredFields = {}
         THEN /\ last.out.success
              /\ last.out.data =
                   Obj([i \in 1..Len(FieldsOf) |->
                          [k |-> FieldsOf[i].k, v |-> UndefinedData(FieldsOf[i].id)]])
         ELSE /\ ~last.out.success
              /\ last.out.error.hasCause
              /\ last.out.error.key =
                   FieldsOf[CHOOSE i \in RequiredFields :
                              \A j \in RequiredFields : i <= j].k
              /\ last.po = PoCollectAll =>
                   Len(last.out.errors) = Cardinality(RequiredFields)
              /\ last.po = PoUndefined => Len(last.out.errors) = 1

\* {} against an object of two required fields gave two errors
C13_Witness ==
  /\ FieldCall /\ last.po = PoCollectAll
  /\ Len(FieldsOf) = 2 /\ AbsentFields = {1, 2} /\ RequiredFields = {1, 2}
  /\ Len(last.out.errors) = 2

\* the keys of the input that the object schema does not declare
UndeclaredKeys ==
  {last.value.c[j].k : j \in 1..Len(last.value.c)} \
    {FieldsOf[i].k : i \in 1..Len(FieldsOf)}

\* what the i-th field's schema returns for the input's value under its key
ChildOutput(i) ==
  safeParse(nodes, FieldsOf[i].id, GetKey(last.value, FieldsOf[i].k), last.po)

SafeInputs ==
  Inputs \cup {ObjectOf(Str("x"), Absent),
               Obj(<<[k |-> "a", v |-> Str("x")], [k |-> "b", v |-> Num(1)],
                     [k |-> "c", v |-> Num(1)]>>)}

NextSafe ==
  \/ \E id \in Ids : CanModify /\ optional(id)
  \/ \E id \in Ids : CanModify /\ nullable(id)
  \/ \E id \in Ids : CanModify /\ nullish(id)
  \/ \E id \in Ids : CanModify /\ default(id, Num(999))
  \/ \E id \in Ids : CanModify /\ transform(id, "first")
  \/ \E id \in Ids, cb \in {"truthy", "never"} :
       CanModify /\ refine(id, cb, MsgConst("refined"))
  \/ \E id \in Ids, target \in Ids : CanModify /\ id # target /\ pipe(id, target)
  \/ \E id \in Ids : CanModify /\ preprocess("String", id)
  \/ \E id \in Ids, v \in SafeInputs, po \in {PoUndefined, PoCollectAll} :
       CallSafeParse(id, v, po)
  \/ DropResult

SpecSafe == Init /\ [][NextSafe]_vars

\* the last call returned a failure result
FailureReturned == last.op = "safeParse" /\ ~last.out.thrown /\ ~last.out.success

\* C14: every failure result has a non-empty errors list whose first
\* element is the same error as its error field; when abortEarly is not
\* false the list has exactly one element, and only under
\* {abortEarly:false} can it have more.
C14_ErrorsList ==
  FailureReturned =>
    /\ Len(last.out.errors) >= 1
    /\ last.out.errors[1] = last.out.error
    /\ last.po # PoCollectAll => Len(last.out.errors) = 1

\* a failure with two errors under {abortEarly:false}
C14_Witness ==
  /\ FailureReturned
  /\ last.po = PoCollectAll
  /\ Len(last.out.errors) = 2
  /\ last.out.errors[1] = last.out.error


\* C15: every error object in every failure result has a message that is a
\* string, whichever step produced the failure: base validation, refine
\* (called with or without a message option), union exhaustion, or an
\* object / array wrapping a child failure.
C15_MessageIsString ==
  (last.op = "safeParse" /\ ~last.out.thrown /\ ~last.out.success) =>
    /\ TypeOf(last.out.error.message) = "string"
    /\ \A j \in 1..Len(last.out.errors) :
         TypeOf(last.out.errors[j].message) = "string"


\* no node carries a transform, a pipe or a preprocess
PlainSchemas ==
  \A id \in Ids : \A j \in 1..Len(nodes[id].hooks) :
    nodes[id].hooks[j].h \notin {"transform", "pipe", "preprocess"}

\* T.safeParse(d) for the data d the last call returned
ParsedAgain == safeParse(nodes, last.node, last.out.data, last.po)

CallStep == last = NoCall /\ last' # NoCall

MaxExtenders == 2
MaxNodes == 3

\* the callbacks a caller registers (the same one can be registered twice)
ExtenderCallbacks == {"email", "positive"}

\* extend(callback)
extend(callback) ==
  /\ last = NoCall
  /\ extenders' = Append(extenders, callback)
  /\ UNCHANGED <<nodes, last>>

InitExtend ==
  /\ nodes = <<>>
  /\ last = NoCall
  /\ extenders = <<>>

CanConstruct == Len(nodes) < MaxNodes

NextExtend ==
  \/ \E callback \in ExtenderCallbacks :
       Len(extenders) < MaxExtenders /\ extend(callback)
  \/ CanConstruct /\ NewLeaf(sString)
  \/ CanConstruct /\ array(Len(nodes))
  \/ CanConstruct /\ object(<<Child("a", Len(nodes))>>)
  \/ \E id \in Ids : Len(nodes[id].hooks) = 0 /\ optional(id)

SpecExtend == InitExtend /\ [][NextExtend]_vars

IsPrefix(p, q) == Len(p) <= Len(q) /\ SubSeq(q, 1, Len(p)) = p

\* C18: after any interleaving of extend() calls and node constructions,
\* each constructed node has been passed exactly once to each callback
\* registered before its construction, in registration order, and to no
\* callback registered afterwards; extend() only appends to the registry,
\* which is never cleared or reordered.  (Once per registration: a callback
\* registered twice is called twice.)
C18_ExtendersInOrder ==
  [][/\ IsPrefix(extenders, extenders')
     /\ Len(nodes') >= Len(nodes)
     /\ \A i \in 1..Len(nodes) : nodes'[i].extended = nodes[i].extended
     /\ Len(nodes') > Len(nodes) =>
          /\ Len(nodes') = Len(nodes) + 1
          /\ nodes'[Len(nodes')].extended = extenders
          /\ extenders' = extenders]_vars

\* a node built between two registrations and one built after both
C18_Witness ==
  /\ Len(extenders) = 2
  /\ extenders[1] # extenders[2]
  /\ \E i, j \in Ids :
       /\ i < j
       /\ nodes[i].extended = <<extenders[1]>>
       /\ nodes[j].extended = extenders


\* the object node carries a default and nothing else
OnlyDefault ==
  /\ Len(Modifiers(nodes[OwnNode])) = 1
  /\ Modifiers(nodes[OwnNode])[1].h = "default"

\* C19: a default attached to an object node supplies the values of the
\* fields missing from an input object that is present:
\* s.object({ a: s.string(), b: s.string().optional() }).default({ a: 'd' })
\* parses { b: 'x' } to { a: 'd', b: 'x' }.
C19_DefaultFillsMissingFields ==
  (OwnCall /\ OnlyDefault /\ TypeOf(last.value) = "object"
     /\ ~HasKey(last.value, "a") /\ "b" \notin BadFields(last.value)) =>
    /\ last.out.success
    /\ GetKey(last.out.data, "a") = GetKey(DefaultObject, "a")
    /\ GetKey(last.out.data, "b") = GetKey(last.value, "b")


(***************************************************************************)
(* Chains of transform, refine and pipe.  A caller holds s.string() and    *)
(* calls transform, refine and pipe on it in any order; the piped schemas  *)
(* are s.number() and s.string().transform(() => 'second').                *)
(***************************************************************************)
MaxSteps == 3

ChainNode == 1
PipeTargets == {2, 3}
ChainInputs == {Undef, Num(1), Str(""), Str("x")}

InitChain ==
  /\ nodes = <<sString, sNumber, hookOriginal(sString, transformOf("second"))>>
  /\ last = NoCall
  /\ extenders = <<>>

CanStep == Len(nodes[ChainNode].hooks) < MaxSteps

NextChain ==
  \/ \E cb \in {"first", "second", "throws"} : CanStep /\ transform(ChainNode, cb)
  \/ \E cb \in {"truthy", "never", "throws"} :
       CanStep /\ refine(ChainNode, cb, MsgConst("refined"))
  \/ \E target \in PipeTargets : CanStep /\ pipe(ChainNode, target)
  \/ \E v \in ChainInputs : CallSafeParse(ChainNode, v, PoUndefined)
  \/ DropResult

SpecChain == InitChain /\ [][NextChain]_vars

\* the state of a run of the chain read in declaration order: whether it
\* still succeeds, the data so far, the steps invoked, and the message of
\* the failure
ChainState(ok, thrown, data, invoked, message) ==
  [ok |-> ok, thrown |-> thrown, data |-> data, invoked |-> invoked,
   message |-> message]

\* what the piped schema says of data, by typeof alone
PipedTo(target, data) ==
  IF target = 2
  THEN [ok |-> TypeOf(data) = "number", data |-> data,
        message |-> Str(errorMessageFactory("number", data))]
  ELSE [ok |-> TypeOf(data) = "string", data |-> Str("second"),
        message |-> Str(errorMessageFactory("string", data))]

\* step i of the chain m on state st
ChainStep(m, i, st) ==
  LET invoked == st.invoked \cup {i}
  IN CASE m[i].h = "transform" ->
            LET r == ApplyTransform(m[i].cb, st.data)
            IN IF r.thrown THEN ChainState(FALSE, TRUE, Undef, invoked, Undef)
               ELSE ChainState(TRUE, FALSE, r.v, invoked, Undef)
       [] m[i].h = "refine" ->
            LET r == ApplyPredicate(m[i].cb, st.data)
            IN IF r.thrown THEN ChainState(FALSE, TRUE, Undef, invoked, Undef)
               ELSE IF r.v = Bool(TRUE) THEN ChainState(TRUE, FALSE, st.data, invoked, Undef)
               ELSE ChainState(FALSE, FALSE, Undef, invoked, Str(m[i].message.arg))
       [] OTHER ->
            LET r == PipedTo(m[i].target, st.data)
            IN IF r.ok THEN ChainState(TRUE, FALSE, r.data, invoked, Undef)
               ELSE ChainState(FALSE, FALSE, Undef, invoked, r.message)

\* the chain m from step i on: a step is invoked only if everything before
\* it succeeded
RECURSIVE ChainFrom(_, _, _)
ChainFrom(m, i, st) ==
  IF i > Len(m) \/ ~st.ok THEN st
  ELSE ChainFrom(m, i + 1, ChainStep(m, i, st))

\* base validation on the raw input, then m1..mn in declaration order
InDeclarationOrder(m, value) ==
  ChainFrom(m, 1,
            IF TypeOf(value) = "string"
            THEN ChainState(TRUE, FALSE, value, {}, Undef)
            ELSE ChainState(FALSE, FALSE, Undef, {},
                            Str(errorMessageFactory("string", value))))

ChainCall == last.op = "safeParse" /\ last.node = ChainNode

\* the pipe steps whose schema the chain node invoked
PipesInvoked == {NestedCalls[j].at : j \in {jj \in 1..Len(NestedCalls) :
                                             NestedCalls[jj].by = ChainNode}}

\* C20: for a chain of transform / refine / pipe modifiers m1..mn attached
\* in that order, base validation runs first on the raw input and then each
\* mi runs in declaration order on the data produced by m1..m(i-1); mi's
\* callback, predicate or piped schema is invoked only if base validation
\* and every earlier step succeeded.
C20_DeclarationOrder ==
  ChainCall =>
    LET m == nodes[ChainNode].hooks
        expected == InDeclarationOrder(m, last.value)
    IN /\ last.out.thrown = expected.thrown
       /\ ~expected.thrown =>
            /\ last.out.success = expected.ok
            /\ expected.ok => last.out.data = expected.data
            /\ ~expected.ok => last.out.error.message = expected.message
       /\ PipesInvoked = {i \in expected.invoked : m[i].h = "pipe"}

\* a refine declared before a transform rejected the raw input '' although
\* the transformed data would have passed, and the transform was not run
C20_Witness ==
  /\ ChainCall
  /\ last.value = Str("")
  /\ Len(nodes[ChainNode].hooks) >= 2
  /\ nodes[ChainNode].hooks[1].h = "refine" /\ nodes[ChainNode].hooks[1].cb = "truthy"
  /\ nodes[ChainNode].hooks[2].h = "transform" /\ nodes[ChainNode].hooks[2].cb = "throws"
  /\ ~last.out.thrown /\ ~last.out.success
  /\ last.out.error.message = Str("refined")


(***************************************************************************)
(* Several refinements on one node.  A caller holds s.string() and calls   *)
(* refine on it repeatedly, the i-th time with the message 'r<i>'.         *)
(***************************************************************************)
MaxRefines == 3

RefineInputs == {Num(1), Str(""), Str("x")}

InitRefine ==
  /\ nodes = <<sString>>
  /\ last = NoCall
  /\ extenders = <<>>

RefineMessage(i) == "r" \o ToString(i)

NextRefine ==
  \/ \E cb \in {"always", "never", "truthy", "throws"} :
       /\ Len(nodes[1].hooks) < MaxRefines
       /\ refine(1, cb, MsgConst(RefineMessage(Len(nodes[1].hooks) + 1)))
  \/ \E v \in RefineInputs, po \in {PoUndefined, PoCollectAll} :
       CallSafeParse(1, v, po)
  \/ DropResult

SpecRefine == InitRefine /\ [][NextRefine]_vars

\* the refinements that do not accept v: the predicate returns something
\* other than true, or throws
NotAccepting(v) ==
  {i \in 1..Len(nodes[1].hooks) :
     ApplyPredicate(nodes[1].hooks[i].cb, v) # Returned(Bool(TRUE))}

LowestOf(S) == CHOOSE i \in S : \A j \in S : i <= j

ChildValues == {Num(1), Str("x")}

InitEarly ==
  /\ nodes = <<sString, sNumber>>
  /\ last = NoCall
  /\ extenders = <<>>

ParentBuilt == Len(nodes) = 3

NextEarly ==
  \/ \E n \in 1..MaxFields : \E ids \in [1..n -> {1, 2}] :
       ~ParentBuilt /\ object([i \in 1..n |-> Child(FieldKey(i), ids[i])])
  \/ \E id \in {1, 2} : ~ParentBuilt /\ array(id)
  \/ \E n \in 1..MaxFields : \E vals \in [1..n -> ChildValues \cup {Absent}] :
     \E po \in {PoUndefined, PoCollectAll} :
       /\ ParentBuilt /\ nodes[3].validation = "object"
       /\ n = Len(nodes[3].definition)
       /\ CallSafeParse(3, FieldObject(vals), po)
  \/ \E v \in SeqsUpTo(ChildValues, MaxLen), po \in {PoUndefined, PoCollectAll} :
       /\ ParentBuilt /\ nodes[3].validation = "array"
       /\ CallSafeParse(3, Arr(v), po)
  \/ DropResult

SpecEarly == InitEarly /\ [][NextEarly]_vars

\* the children of the last call in order: per child the schema and the
\* value it is to parse
ChildrenOf ==
  IF nodes[last.node].validation = "object"
  THEN [i \in 1..Len(nodes[last.node].definition) |->
          [id |-> nodes[last.node].definition[i].id,
           v |-> GetKey(last.value, nodes[last.node].definition[i].k)]]
  ELSE [i \in 1..Len(last.value.c) |->
          [id |-> nodes[last.node].definition[1].id, v |-> last.value.c[i]]]

\* the children whose schema rejects their value, by typeof alone
FailingChildren ==
  {i \in 1..Len(ChildrenOf) : TypeOf(ChildrenOf[i].v) # nodes[ChildrenOf[i].id].type}

\* how many children the loop reaches when it stops at the first failure
ReachedEarly ==
  IF FailingChildren = {} THEN Len(ChildrenOf) ELSE LowestOf(FailingChildren)

\* the calls the parent made on its children, in the order made
ChildCalls == SelectSeq(NestedCalls, LAMBDA ev : ev.by = last.node)

\* C22: when abortEarly is not false an object or array parse returns as
\* soon as one child fails: no child schema after the first failing field
\* or element is invoked.  Under {abortEarly:false} every declared field or
\* element is parsed exactly once, in order, whether or not earlier ones
\* failed.
C22_ChildrenInvoked ==
  (last.op = "safeParse" /\ last.node = 3) =>
    LET reached == IF last.po = PoCollectAll THEN Len(ChildrenOf) ELSE ReachedEarly
    IN /\ Len(ChildCalls) = reached
       /\ \A i \in 1..reached :
            /\ ChildCalls[i].at = i
            /\ ChildCalls[i].node = ChildrenOf[i].id
            /\ ChildCalls[i].v = ChildrenOf[i].v

\* an array whose first element fails and has elements after it, parsed
\* under the default policy: one child invoked
C22_Witness ==
  /\ last.op = "safeParse" /\ last.node = 3 /\ last.po = PoUndefined
  /\ nodes[3].validation = "array"
  /\ Len(last.value.c) >= 2
  /\ 1 \in FailingChildren
  /\ Len(ChildCalls) = 1


(***************************************************************************)
(* A default given as a factory.  A caller holds                           *)
(* s.number().default(() => ++counter), an object with that node as a      *)
(* field, may call one more modifier on the node, and parses.  The         *)
(* counter is the factory's own state: a call leaves it advanced by the    *)
(* number of times the factory ran.                                        *)
(***************************************************************************)
MaxCount == 3

FactoryInputs == {Undef, Null, Num(0), Num(5)}
FactoryObjects == {Obj(<<>>), ObjectOf(Undef, Absent), ObjectOf(Num(5), Absent)}

InitFactory ==
  /\ nodes = <<hookOriginal(sNumber, defaultOfFactory(0)), sObject(<<Child("a", 1)>>)>>
  /\ last = NoCall
  /\ extenders = <<>>

\* where the counter stands
Counter == nodes[1].hooks[1].dv.n

\* the defaultValue() calls in a log made by the hook at level lvl of node id
FactoryCallsBy(log, id, lvl) ==
  {j \in 1..Len(log) : log[j].node = 0 /\ log[j].by = id /\ log[j].at = lvl}

\* the nodes once the factories that ran have advanced their counters
CountersAfter(h, log) ==
  [id \in DOMAIN h |->
     [h[id] EXCEPT !.hooks =
        [lvl \in DOMAIN h[id].hooks |->
           IF h[id].hooks[lvl].isFn
           THEN [h[id].hooks[lvl] EXCEPT
                   !.dv = Num(@.n + Cardinality(FactoryCallsBy(log, id, lvl)))]
           ELSE h[id].hooks[lvl]]]]

\* schema.safeParse(value) on a schema whose defaults are counters
CallSafeParseCounting(id, value, parseOptions) ==
  /\ last = NoCall
  /\ id \in Ids
  /\ LET out == safeParse(nodes, id, value, parseOptions)
     IN /\ last' = [op |-> "safeParse", node |-> id, value |-> value,
                    po |-> parseOptions, out |-> out, ret |-> Return(Undef)]
        /\ nodes' = CountersAfter(nodes, out.log)
  /\ UNCHANGED extenders

NextFactory ==
  \/ Len(nodes[1].hooks) < MaxChain /\ optional(1)
  \/ Len(nodes[1].hooks) < MaxChain /\ nullable(1)
  \/ Len(nodes[1].hooks) < MaxChain /\ transform(1, "first")
  \/ Len(nodes[1].hooks) < MaxChain /\ refine(1, "truthy", MsgConst("refined"))
  \/ \E v \in FactoryInputs : Counter < MaxCount /\ CallSafeParseCounting(1, v, PoUndefined)
  \/ \E v \in FactoryObjects : Counter < MaxCount /\ CallSafeParseCounting(2, v, PoUndefined)
  \/ DropResult

SpecFactory == InitFactory /\ [][NextFactory]_vars

\* the defaultValue() calls of the last parse, and the _parse calls of the
\* node whose raw input was undefined
FactoryCalls == SelectSeq(NestedCalls, LAMBDA ev : ev.node = 0)
UndefinedParses == {j \in 1..Len(NestedCalls) :
                      NestedCalls[j].node = 1 /\ NestedCalls[j].v = Undef}

\* C23: a default given as a factory function is invoked exactly once
\* during each _parse call of that node whose raw input is undefined and
\* never when the raw input is anything else; its result is not cached:
\* each invocation yields the counter's next value.
C23_FactoryPerParse ==
  last.op = "safeParse" =>
    /\ Len(FactoryCalls) = Cardinality(UndefinedParses)
    /\ \A j \in 1..Len(FactoryCalls) : FactoryCalls[j].v = Num(Counter)
    /\ (last.node = 1 /\ last.value = Undef /\ Len(nodes[1].hooks) = 1) =>
         last.out.success /\ last.out.data = Num(Counter)

\* the second parse of undefined returned 2
C23_Witness ==
  /\ last.op = "safeParse" /\ last.node = 1 /\ last.value = Undef
  /\ Len(FactoryCalls) = 1
  /\ last.out.success /\ last.out.data = Num(2)
  /\ Counter = 2


\* C25: every _parse call terminates for every schema that can be built
\* through the public constructors and modifiers: no call runs until the
\* stack is exhausted.
C25_ParseTerminates ==
  ~(last.out.thrown /\ last.out.exn = "RangeError")


\* the values a holder is probed with below
ProbeValues == {Undef, Null, Num(1), Str("x")}

\* a step that changes some node's pipeline: a modifier call or s.preprocess
ModifierStep == nodes' # nodes

\* the holders of node id in h that carry no modifier of their own: the
\* objects, arrays and unions built over it
HoldersOf(h, id) ==
  {H \in DOMAIN h :
     /\ H # id
     /\ Modifiers(h[H]) = <<>>
     /\ \E i \in 1..Len(h[H].definition) : h[H].definition[i].id = id}

\* holder H, parsed in h on one probe value per child, returns what its
\* children's pipelines in h return on those values
HolderFollows(h, H) ==
  LET def == h[H].definition
  IN \A vals \in [1..Len(def) -> ProbeValues] :
       LET cs == [i \in 1..Len(def) |-> safeParse(h, def[i].id, vals[i], PoUndefined)]
           passed == {i \in 1..Len(def) : cs[i].success}
           input == CASE h[H].validation = "object" ->
                           Obj([i \in 1..Len(def) |-> [k |-> def[i].k, v |-> vals[i]]])
                      [] h[H].validation = "array" -> Arr(<<vals[1]>>)
                      [] OTHER -> vals[1]
           r == safeParse(h, H, input, PoUndefined)
       IN (\A i \in 1..Len(def) : ~cs[i].thrown) =>
            CASE h[H].validation = "object" ->
                   /\ r.success <=> passed = 1..Len(def)
                   /\ r.success =>
                        r.data = Obj([i \in 1..Len(def) |->
                                        [k |-> def[i].k, v |-> cs[i].data]])
              [] h[H].validation = "array" ->
                   /\ r.success <=> cs[1].success
                   /\ r.success => r.data = Arr(<<cs[1].data>>)
              [] OTHER ->
                   LET same == [i \in 1..Len(def) |->
                                  safeParse(h, def[i].id, vals[1], PoUndefined)]
                       ok == {i \in 1..Len(def) : same[i].success}
                   IN (\A i \in 1..Len(def) : ~same[i].thrown) =>
                        /\ r.success <=> ok # {}
                        /\ r.success =>
                             r.data = same[CHOOSE i \in ok : \A j \in ok : i <= j].data

\* C26: each modifier call and s.preprocess extends the pipeline of the
\* node it was applied to by exactly one step, in place: no node is added,
\* every other node (a piped target included) keeps its pipeline, and every
\* holder of the node follows the new pipeline on its next parse.
C26_ModifierInPlace ==
  [][ModifierStep =>
       /\ Len(nodes') = Len(nodes)
       /\ \E id \in Ids :
            /\ \A other \in Ids \ {id} : nodes'[other] = nodes[other]
            /\ Len(nodes'[id].hooks) = Len(nodes[id].hooks) + 1
            /\ nodes'[id] =
                 hookOriginal(nodes[id], nodes'[id].hooks[Len(nodes'[id].hooks)])
            /\ \A H \in HoldersOf(nodes', id) : HolderFollows(nodes', H)]_vars

\* an object built before its field's schema was made optional accepted
\* an input without that field
C26_Witness ==
  /\ last.op = "safeParse" /\ last.node = 3
  /\ Modifiers(nodes[3]) = <<>>
  /\ nodes[2].hooks = <<Hook("optional")>>
  /\ last.value = ObjectOf(Str("x"), Absent)
  /\ last.out.success
  /\ last.out.data = ObjectOf(Str("x"), Undef)


(***************************************************************************)
(* s.preprocess with the identity callback.  A caller holds two leaves,    *)
(* an object and an array over them, wraps one of the four with            *)
(* s.preprocess((v) => v, node) and parses under both policies.            *)
(***************************************************************************)
WrapInputs ==
  {Undef}
    \cup {ObjectOf(v, w) : v \in ChildValues, w \in ChildValues}
    \cup {Arr(items) : items \in SeqsUpTo(ChildValues, MaxLen)}

InitWrap ==
  /\ nodes = <<sString, sNumber, sObject(<<Child("a", 1), Child("b", 2)>>), sArray(1)>>
  /\ last = NoCall
  /\ extenders = <<>>

NextWrap ==
  \/ \E id \in Ids : CanModify /\ preprocess("id", id)
  \/ \E id \in Ids, v \in WrapInputs, po \in {PoUndefined, PoCollectAll} :
       CallSafeParse(id, v, po)
  \/ DropResult

SpecWrap == InitWrap /\ [][NextWrap]_vars

\* the outermost step of the node's pipeline is s.preprocess((v) => v, ...)
WrappedById(id) ==
  /\ nodes[id].hooks # <<>>
  /\ nodes[id].hooks[Len(nodes[id].hooks)] = preprocessOf("id")

\* what the node returned before it was wrapped
Unwrapped(id, value, parseOptions) ==
  safeParse([nodes EXCEPT ![id].hooks = SubSeq(@, 1, Len(@) - 1)],
            id, value, parseOptions)

\* C27: for the identity callback, s.preprocess(id, T).safeParse(v, o)
\* returns the same result as T.safeParse(v, o) for every input v and every
\* options value o, {abortEarly:false} on an object or array with several
\* failing children included.
C27_IdentityPreprocess ==
  (last.op = "safeParse" /\ WrappedById(last.node)) =>
    LET plain == Unwrapped(last.node, last.value, last.po)
    IN /\ last.out.thrown = plain.thrown
       /\ last.out.success = plain.success
       /\ last.out.data = plain.data
       /\ last.out.error = plain.error
       /\ last.out.errors = plain.errors


\* the three ways to let a leaf take null and undefined
NullishChains ==
  { <<Hook("nullable"), Hook("optional")>>,
    <<Hook("optional"), Hook("nullable")>>,
    <<Hook("nullish")>> }

\* what the leaf T of the node last parsed with returns under the chain
UnderChain(chain) ==
  safeParse(<<[nodes[last.node] EXCEPT !.hooks = chain]>>, 1, last.value, last.po)

C29_ValidShape ==
  (last.op = "safeParse" /\ last.out.success) =>
    /\ last.out.hasData
    /\ ~last.out.hasError
    /\ last.out.errors = <<>>


(***************************************************************************)
(* multipleOf.  number.ts is loaded, so its extend() callback is in the    *)
(* registry and s.number() carries the number methods.  A caller holds     *)
(* s.number(), calls multipleOf(k) on it and parses integers.              *)
(***************************************************************************)
\* numberSchema.multipleOf(value): this.refine((num) => num % value === 0,
\* { message: `Number must be a multiple of ${value}.` })
multipleOf(id, value) ==
  /\ nodes[id].type = "number"
  /\ \E i \in 1..Len(nodes[id].extended) : nodes[id].extended[i] = "number"
  /\ refine(id, MultipleOfCallback(value),
            MsgConst("Number must be a multiple of " \o ToString(value) \o "."))

InitMultiple ==
  /\ nodes = <<reduceExtenders(<<"number">>, sNumber)>>
  /\ last = NoCall
  /\ extenders = <<"number">>

NextMultiple ==
  \/ \E value \in Divisors : nodes[1].hooks = <<>> /\ multipleOf(1, value)
  \/ \E n \in Divisors : CallSafeParse(1, Num(n), PoUndefined)
  \/ DropResult

SpecMultiple == InitMultiple /\ [][NextMultiple]_vars

\* the last call was s.number().multipleOf(k).safeParse(n)
MultipleCall == last.op = "safeParse" /\ nodes[last.node].hooks # <<>>
GivenDivisor == DivisorOf(nodes[last.node].hooks[1].cb)
IsMultiple(n, k) == \E q \in Divisors : n = q * k

\* C30, as stated: for every integer k and every integer n, positive or
\* negative, s.number().multipleOf(k) accepts n if and only if n = q*k for
\* some integer q.
C30_MultipleOfEveryDivisor ==
  MultipleCall => (last.out.success <=> IsMultiple(last.value.n, GivenDivisor))

\* C30, amended: for every integer k other than 0 and every integer n,
\* multipleOf(k) accepts n if and only if n = q*k for some integer q, and
\* rejects with "Number must be a multiple of k."; multipleOf(0) rejects
\* every n, 0 included.
C30_MultipleOfNonZero ==
  MultipleCall =>
    /\ ~last.out.thrown
    /\ GivenDivisor # 0 =>
         (last.out.success <=> IsMultiple(last.value.n, GivenDivisor))
    /\ GivenDivisor = 0 => ~last.out.success
    /\ last.out.success => last.out.data = last.value
    /\ ~last.out.success =>
         last.out.error.message =
           Str("Number must be a multiple of " \o ToString(GivenDivisor) \o ".")
    /\ (GivenDivisor = 5 /\ last.value.n \in {5, 10}) => last.out.success
    /\ (GivenDivisor = 5 /\ last.value.n = 7) => ~last.out.success
    /\ (GivenDivisor = 3 /\ last.value.n = 0 - 9) => last.out.success
    /\ (GivenDivisor = 3 /\ last.value.n = 0 - 10) => ~last.out.success

\* multipleOf(3) accepted -9
C30_Witness ==
  /\ MultipleCall /\ GivenDivisor = 3 /\ last.value = Num(0 - 9)
  /\ last.out.success /\ last.out.data = Num(0 - 9)

=============================================================================
